---- MODULE Spec2Model ----
(***************************************************************************)
(* Model of torch3d's IoU metric (torch3d/metrics/iou.py) and of the       *)
(* tensor shapes of SetAbstraction.forward (torch3d/nn/layers.py).         *)
(*                                                                         *)
(* Numbers.  The counters inter and union are float32 tensors that only    *)
(* ever hold smooth plus a sum of integer counts.  The model takes smooth  *)
(* from a small set of integers and keeps the counters as exact integers   *)
(* (float32 is exact on integers below 2^24).  A float that results from a *)
(* division is a pair <<n, d>> with d >= 0 in lowest terms:                *)
(*   <<n, d>>, d > 0   the finite value n/d                                *)
(*   <<1, 0>>          +inf      <<-1, 0>>   -inf      <<0, 0>>   nan       *)
(*                                                                         *)
(* Tensors.  A 1-D tensor over the classes is a function on                *)
(* 0 .. num_classes-1; a flattened batch is a sequence of positions.  The  *)
(* prediction tensor x of update is given position by position: x[i] is    *)
(* the vector of class scores (dimension 1 of the tensor) at flattened     *)
(* position i.  update is modelled for x and y of equal flattened length.  *)
(***************************************************************************)
EXTENDS Integers, Sequences, FiniteSets, TLC

\* ---------------------------------------------------------------- bounds
\* longest flattened batch the caller passes to update
MaxLen == 1
\* number of method calls made on one accumulator
MaxCalls == 3
\* largest point count N and largest pooling width k of SetAbstraction
MaxN == 4
MaxK == 3

\* ---------------------------------------------------------- input domains
\* values of num_classes and of smooth the accumulator is constructed with
ClassCounts == {1, 2}
SmoothVals == {-1, 0, 1}

\* iou     the accumulator: its fields num_classes, smooth, inter, union
\* ret     what the last call returned (<<>> for None, else the float)
\* call    the last call made on iou, with its arguments
\* pre     iou as it was when the last call was made
\* seen    the classes shown by the batches passed since the last reset
\* shadow  a second accumulator, constructed alike, that is sent the same
\*         reset and update calls as iou but never a score or mean call
\* ncalls  the number of calls made on iou
\* sa, shp, out   a SetAbstraction layer, the shapes of the tensors passed
\*         to its forward, and what forward returned
VARIABLES iou, ret, call, pre, seen, shadow, ncalls, sa, shp, out

vars == <<iou, ret, call, pre, seen, shadow, ncalls, sa, shp, out>>
iouVars == <<iou, ret, call, pre, seen, shadow, ncalls>>
saVars == <<sa, shp, out>>

\* ------------------------------------------------------- float arithmetic
Abs(n) == IF n < 0 THEN -n ELSE n

RECURSIVE GCD(_, _)
GCD(a, b) == IF b = 0 THEN a ELSE GCD(b, a % b)

\* n/d in lowest terms with a positive denominator (d # 0)
Frac(n, d) ==
    LET g == GCD(Abs(n), Abs(d))
        s == IF d < 0 THEN -1 ELSE 1
    IN  <<(s * n) \div g, (s * d) \div g>>

NaN == <<0, 0>>

DivZeroIsZero(a, b) == IF b # 0 THEN Frac(a, b) ELSE <<0, 1>>

\* a / b of two floats holding the integers a and b (IEEE: x/0 is inf or nan)
Div(a, b) ==
    IF b # 0 THEN Frac(a, b)
    ELSE IF a > 0 THEN <<1, 0>>
    ELSE IF a < 0 THEN <<-1, 0>>
    ELSE NaN

isfinite(v) == v[2] # 0

\* n/d plus the sum of a sequence of finite values
RECURSIVE FracSum(_, _, _)
FracSum(s, n, d) ==
    IF s = <<>> THEN Frac(n, d)
    ELSE FracSum(Tail(s), n * Head(s)[2] + Head(s)[1] * d, d * Head(s)[2])

\* torch.mean of a 1-D tensor of finite values; nan for the empty tensor
TorchMean(s) ==
    IF s = <<>> THEN NaN
    ELSE LET t == FracSum(s, 0, 1) IN Frac(t[1], t[2] * Len(s))

\* ------------------------------------------------------------ IoU metric
Classes(self) == 0 .. (self.num_classes - 1)

\* torch.argmax over the class dimension: index of the first maximal score
argmax(v) ==
    CHOOSE i \in 0 .. (Len(v) - 1) :
        /\ \A j \in 0 .. (Len(v) - 1) : v[j + 1] <= v[i + 1]
        /\ \A j \in 0 .. (i - 1) : v[j + 1] < v[i + 1]

\* the elementwise t == k, a & b and a | b of 1-D tensors
eq(t, k) == [i \in 1 .. Len(t) |-> t[i] = k]
and(a, b) == [i \in 1 .. Len(a) |-> a[i] /\ b[i]]
or(a, b) == [i \in 1 .. Len(a) |-> a[i] \/ b[i]]

\* torch.sum of a boolean tensor
RECURSIVE TorchSum(_)
TorchSum(m) ==
    IF m = <<>> THEN 0
    ELSE (IF Head(m) THEN 1 ELSE 0) + TorchSum(Tail(m))

resetNoSmooth(self) ==
    [self EXCEPT !.inter = [k \in Classes(self) |-> 0],
                 !.union = [k \in Classes(self) |-> 0]]

reset(self) ==
    [self EXCEPT !.inter = [k \in Classes(self) |-> 0 + self.smooth],
                 !.union = [k \in Classes(self) |-> 0 + self.smooth]]

\* __init__: the two fields, then reset()
IoU(num_classes, smooth) ==
    reset([num_classes |-> num_classes, smooth |-> smooth,
           inter |-> <<>>, union |-> <<>>])

\* the body of the loop "for k in range(self.num_classes)" for one k,
\* x and y being the flattened hard labels
updateClassSwapped(self, x, y, k) ==
    LET a == eq(x, k)
        b == eq(y, k)
    IN  [self EXCEPT !.inter[k] = @ + TorchSum(or(a, b)),
                     !.union[k] = @ + TorchSum(and(a, b))]

updateClassAssign(self, x, y, k) ==
    LET a == eq(x, k)
        b == eq(y, k)
    IN  [self EXCEPT !.inter[k] = self.smooth + TorchSum(and(a, b)),
                     !.union[k] = self.smooth + TorchSum(or(a, b))]

updateClass(self, x, y, k) ==
    LET a == eq(x, k)
        b == eq(y, k)
    IN  [self EXCEPT !.inter[k] = @ + TorchSum(and(a, b)),
                     !.union[k] = @ + TorchSum(or(a, b))]

RECURSIVE updateLoop(_, _, _, _)
updateLoop(self, x, y, k) ==
    IF k >= self.num_classes THEN self
    ELSE updateLoop(updateClass(self, x, y, k), x, y, k + 1)

\* the hard labels: argmax over the class dimension, flattened
HardLabels(x) == [i \in 1 .. Len(x) |-> argmax(x[i])]

update(self, x, y) == updateLoop(self, HardLabels(x), y, 0)

\* value = self.inter / self.union, as the sequence of its elements
Ratios(self) ==
    [i \in 1 .. self.num_classes |-> Div(self.inter[i - 1], self.union[i - 1])]

scoreKeepAll(self) ==
    [self  |-> self,
     value |-> LET v == Ratios(self)
                   z == [i \in 1 .. Len(v) |-> IF isfinite(v[i]) THEN v[i] ELSE <<0, 1>>]
               IN  TorchMean(z)]

scoreSum(self) ==
    [self  |-> self,
     value |-> LET v == SelectSeq(Ratios(self), isfinite)
               IN  FracSum(v, 0, 1)]

scoreInPlace(self) ==
    [self  |-> [self EXCEPT !.inter = [k \in Classes(self) |-> 0]],
     value |-> TorchMean(SelectSeq(Ratios(self), isfinite))]

\* score(): the object it leaves behind and the value it returns
score(self) ==
    [self  |-> self,
     value |-> TorchMean(SelectSeq(Ratios(self), isfinite))]

mean(self) == score(self)

\* ------------------------------------------------- inputs of update(x, y)
\* score vectors over C classes: the last class scores 1 and every other
\* class 0 or 1, so the maximum is either unique (at the last class) or
\* tied among several classes
ScoreVecs(C) == {v \in [1 .. C -> {0, 1}] : v[C] = 1}

\* target labels: the classes and one label outside [0, C)
Labels(C) == 0 .. C

\* the four-position batch whose predictions favour class 1 everywhere
ScenarioBatch ==
    [x |-> [i \in 1 .. Len(<<1, 1, 0, 0>>) |-> <<0, 1>>], y |-> <<1, 1, 0, 0>>]

Batches(C) ==
    UNION {{[x |-> xs, y |-> ys] :
              xs \in [1 .. n -> ScoreVecs(C)], ys \in [1 .. n -> Labels(C)]} :
           n \in 0 .. MaxLen}
    \cup (IF C = Len(ScenarioBatch.x[1]) THEN {ScenarioBatch} ELSE {})

\* the class labels a batch shows, in its predictions or in its targets
Shown(self, x, y) ==
    {k \in Classes(self) : \E i \in 1 .. Len(y) : argmax(x[i]) = k \/ y[i] = k}

\* the batches a caller passes, by num_classes
BatchTable == [C \in ClassCounts |-> Batches(C)]

NoCall == [op |-> "init", x |-> <<>>, y |-> <<>>]
SaIdle == [in_channels |-> 0, mlp |-> <<>>, radius |-> <<>>, k |-> <<>>]

IoUInit ==
    /\ \E C \in ClassCounts, s \in SmoothVals : iou = IoU(C, s)
    /\ ret = <<>>
    /\ call = NoCall
    /\ pre = iou
    /\ seen = {}
    /\ shadow = iou
    /\ ncalls = 0

Reset ==
    /\ ncalls < MaxCalls
    /\ iou' = reset(iou)
    /\ ret' = <<>>
    /\ call' = [op |-> "reset", x |-> <<>>, y |-> <<>>]
    /\ pre' = iou
    /\ seen' = {}
    /\ shadow' = reset(shadow)
    /\ ncalls' = ncalls + 1
    /\ UNCHANGED saVars

Update ==
    /\ ncalls < MaxCalls
    /\ \E b \in BatchTable[iou.num_classes] :
        /\ iou' = update(iou, b.x, b.y)
        /\ call' = [op |-> "update", x |-> b.x, y |-> b.y]
        /\ seen' = seen \cup Shown(iou, b.x, b.y)
        \* update(shadow, b.x, b.y): update is a function of its arguments,
        \* so it need not be computed again while shadow equals iou
        /\ shadow' = IF shadow = iou THEN iou' ELSE update(shadow, b.x, b.y)
    /\ ret' = <<>>
    /\ pre' = iou
    /\ ncalls' = ncalls + 1
    /\ UNCHANGED saVars

Score ==
    /\ ncalls < MaxCalls
    /\ iou' = score(iou).self
    /\ ret' = score(iou).value
    /\ call' = [op |-> "score", x |-> <<>>, y |-> <<>>]
    /\ pre' = iou
    /\ ncalls' = ncalls + 1
    /\ UNCHANGED <<seen, shadow, sa, shp, out>>

Mean ==
    /\ ncalls < MaxCalls
    /\ iou' = mean(iou).self
    /\ ret' = mean(iou).value
    /\ call' = [op |-> "mean", x |-> <<>>, y |-> <<>>]
    /\ pre' = iou
    /\ ncalls' = ncalls + 1
    /\ UNCHANGED <<seen, shadow, sa, shp, out>>


\* ------------------------------------------------------- SetAbstraction
\* An optional argument is <<>> for None and <<v>> for the value v.  A
\* tensor is the sequence of its dimension sizes; the failed shape of a
\* step that raises is <<>>, which every later step passes on.  Only the
\* shapes are modelled: BatchNorm2d and ReLU keep the shape, and the
\* layer is constructed in radius mode with a number for k.
None == <<>>
Failed == <<>>

\* t.unsqueeze(1)
unsqueeze1(t) ==
    IF t = Failed THEN Failed ELSE <<t[1], 1>> \o SubSeq(t, 2, Len(t))

\* t.unsqueeze(2)
unsqueeze2(t) ==
    IF t = Failed THEN Failed ELSE <<t[1], t[2], 1>> \o SubSeq(t, 3, Len(t))

\* torch.cat([s, t], dim=-1): all other dimensions must agree
catLast(s, t) ==
    IF s = Failed \/ t = Failed \/ Len(s) # Len(t) THEN Failed
    ELSE IF \E i \in 1 .. (Len(s) - 1) : s[i] # t[i] THEN Failed
    ELSE [s EXCEPT ![Len(s)] = s[Len(s)] + t[Len(t)]]

\* t.permute(0, 3, 1, 2) of a 4-D tensor
permute0312(t) ==
    IF t = Failed \/ Len(t) # 4 THEN Failed ELSE <<t[1], t[4], t[2], t[3]>>

\* t.permute(0, 2, 1) of a 3-D tensor
permute021(t) ==
    IF t = Failed \/ Len(t) # 3 THEN Failed ELSE <<t[1], t[3], t[2]>>

\* s - t with broadcasting of size-1 dimensions (equal ranks)
broadcast(s, t) ==
    IF s = Failed \/ t = Failed \/ Len(s) # Len(t) THEN Failed
    ELSE IF \E i \in 1 .. Len(s) : s[i] # t[i] /\ s[i] # 1 /\ t[i] # 1 THEN Failed
    ELSE [i \in 1 .. Len(s) |-> IF s[i] = 1 THEN t[i] ELSE s[i]]

\* the stack of Conv2d(last_channels, channels, 1), BatchNorm2d, ReLU: each
\* convolution needs its input channel count and sets the output's
RECURSIVE mlpShape(_, _, _)
mlpShape(t, last_channels, chans) ==
    IF chans = <<>> \/ t = Failed THEN t
    ELSE IF t[2] # last_channels THEN Failed
    ELSE mlpShape([t EXCEPT ![2] = Head(chans)], Head(chans), Tail(chans))

\* MaxPool2d([1, k]) pools over all N points only when told to
maxpoolWhole(t, k) ==
    IF t = Failed \/ k = None THEN Failed
    ELSE <<t[1], t[2], t[3], 1>>

\* MaxPool2d([1, k]): kernel [1, k], stride = kernel, no padding, floor mode
maxpool(t, k) ==
    IF t = Failed \/ k = None THEN Failed
    ELSE IF t[4] < k[1] THEN Failed
    ELSE <<t[1], t[2], t[3], ((t[4] - k[1]) \div k[1]) + 1>>

\* t.squeeze(3): drops dimension 3 when its size is 1
squeeze3(t) ==
    IF t = Failed THEN Failed
    ELSE IF t[4] = 1 THEN SubSeq(t, 1, 3) ELSE t

\* F.ball_point(p, q, radius, k): for every query point exactly k indices
ball_point(p, q, radius, k) == <<q[1], q[2], k[1]>>

\* F.batched_index_select(t, 1, index) with index of shape [B, M]
batched_index_select(t, index) ==
    IF t = Failed \/ index[1] # t[1] THEN Failed ELSE <<t[1], index[2], t[3]>>

\* index.view(batch_size, -1)
viewFlat(index, batch_size) ==
    <<batch_size, (index[1] * index[2] * index[3]) \div batch_size>>

\* t.view(list(index.shape) + [-1])
viewAs(t, index) ==
    IF t = Failed THEN Failed ELSE index \o <<(t[2] * t[3]) \div (index[2] * index[3])>>

\* SetAbstraction.forward(p, q, x): the shape of the returned features
forward(self, p, q, x) ==
    LET batch_size == p[1]
        index == IF self.radius # None
                 THEN ball_point(p, q, self.radius, self.k) ELSE <<>>
        x_hat0 == IF self.radius # None
                  THEN broadcast(viewAs(batched_index_select(
                                    p, viewFlat(index, batch_size)), index),
                                 unsqueeze2(q))
                  ELSE unsqueeze1(p)
        x_hat == IF x # None
                 THEN catLast(x_hat0,
                        IF self.radius # None
                        THEN viewAs(batched_index_select(
                                permute021(x[1]), viewFlat(index, batch_size)), index)
                        ELSE unsqueeze1(x[1]))
                 ELSE x_hat0
        x1 == permute0312(x_hat)
        x2 == mlpShape(x1, self.in_channels, self.mlp)
        x3 == squeeze3(maxpool(x2, self.k))
    IN  IF x3 = Failed THEN [status |-> "error", q |-> <<>>, x |-> <<>>]
        ELSE [status |-> "ok", q |-> q, x |-> x3]

SaConfigs ==
    {[in_channels |-> c, mlp |-> m, radius |-> r, k |-> k] :
        c \in {3, 5}, m \in {<<>>, <<4>>, <<4, 6>>},
        r \in {None, <<1>>}, k \in {None} \cup {<<n>> : n \in 1 .. MaxK}}

\* p is [B, N, 3], q is [B, Nq, 3]; x, when given, has 2 channels and is
\* [B, N, 2] in group-all mode and [B, 2, N] in radius mode
SaInputs(cfg) ==
    UNION {{[p |-> <<B, N, 3>>, q |-> <<B, Nq, 3>>, x |-> x] :
               x \in {None, <<IF cfg.radius = None THEN <<B, N, 2>> ELSE <<B, 2, N>>>>}} :
           B \in 1 .. 2, N \in 1 .. MaxN, Nq \in 1 .. 2}

NoOut == [status |-> "none", q |-> <<>>, x |-> <<>>]

SaInit ==
    /\ sa \in {c \in SaConfigs : c.radius # None => c.k # None}
    /\ shp \in SaInputs(sa)
    /\ out = NoOut

Forward ==
    /\ out.status = "none"
    /\ out' = forward(sa, shp.p, shp.q, shp.x)
    /\ UNCHANGED <<sa, shp, iouVars>>

\* ------------------------------------------------------- specifications
\* one accumulator through its life; the layer is not used
Init ==
    /\ IoUInit
    /\ sa = SaIdle
    /\ shp = [p |-> <<>>, q |-> <<>>, x |-> <<>>]
    /\ out = NoOut

Next == Reset \/ Update \/ Score \/ Mean

Spec == Init /\ [][Next]_vars

\* one SetAbstraction layer and one forward call; the metric is not used
InitSA ==
    /\ SaInit
    /\ iou = IoU(1, 0)
    /\ ret = <<>>
    /\ call = NoCall
    /\ pre = iou
    /\ seen = {}
    /\ shadow = iou
    /\ ncalls = 0

NextSA == Forward

SpecSA == InitSA /\ [][NextSA]_vars


\* ---------------------------------------------- properties: IoU metric
Fresh(self) == [k \in Classes(self) |-> self.smooth]

\* the number of positions of a batch at which P holds
CountPos(n, P(_)) == Cardinality({i \in 1 .. n : P(i)})

\* C1: an update(x, y) with pred = argmax of x and truth = y adds to
\* inter[k] exactly the number of positions with pred = k and truth = k and
\* to union[k] exactly the number with pred = k or truth = k, for every
\* class k; labels outside [0, num_classes) add to no counter, and no other
\* field changes.
C1_UpdateCounts ==
    call.op = "update" =>
        LET pred == HardLabels(call.x)
            truth == call.y
            n == Len(truth)
        IN  /\ DOMAIN iou.inter = Classes(pre)
            /\ DOMAIN iou.union = Classes(pre)
            /\ iou.num_classes = pre.num_classes
            /\ iou.smooth = pre.smooth
            /\ \A k \in Classes(pre) :
                /\ iou.inter[k] = pre.inter[k]
                      + CountPos(n, LAMBDA i : pred[i] = k /\ truth[i] = k)
                /\ iou.union[k] = pre.union[k]
                      + CountPos(n, LAMBDA i : pred[i] = k \/ truth[i] = k)

\* an update with a target label outside the classes that raised a union
\* counter and left the matching inter counter, raised by an earlier update
C1_Witness ==
    /\ call.op = "update"
    /\ \E i \in 1 .. Len(call.y) : call.y[i] \notin Classes(iou)
    /\ \E k \in Classes(iou) :
        /\ iou.union[k] > pre.union[k]
        /\ iou.inter[k] = pre.inter[k]
        /\ pre.inter[k] > pre.smooth

\* a step that is an update call made right after an update call
TwoUpdates == call.op = "update" /\ call'.op = "update" /\ ncalls' = ncalls + 1

\* C2: update(a, b) followed by update(c, d) leaves the accumulator as the
\* single update(concat(a, c), concat(b, d)) from the same state does.
C2_Associative ==
    [][TwoUpdates =>
        \A ac \in {call.x \o call'.x} :
            \A bd \in {call.y \o call'.y} :
                iou' = update(pre, ac, bd)]_vars

\* two updates in a row, each of which changed a counter
C2_Witness ==
    /\ ncalls = 2
    /\ call.op = "update"
    /\ pre.union # Fresh(pre)
    /\ iou.inter # pre.inter
    /\ Len(call.x) > 0

\* C3: two update calls made one after the other can be exchanged: the
\* accumulator, and so what score() computes from it, is that of the calls
\* made in the other order.  Exchanges of neighbours generate every
\* permutation of a sequence of update calls, so the counters depend on the
\* batches and not on their order.
C3_OrderIndependent ==
    [][TwoUpdates =>
        \A first \in {update(pre, call'.x, call'.y)} :
            \A other \in {update(first, call.x, call.y)} :
                \A now \in {iou'} :
                    /\ now.inter = other.inter
                    /\ now.union = other.union
                    /\ now = other]_vars

\* two updates in a row that changed the counters differently
C3_Witness ==
    /\ ncalls = 2
    /\ call.op = "update"
    /\ pre.union # Fresh(pre)
    /\ iou.union # pre.union
    /\ \E k \in Classes(iou) :
        iou.union[k] - pre.union[k] # pre.union[k] - iou.smooth

\* C4: after reset() every counter holds smooth, as in a freshly
\* constructed accumulator with the same num_classes and smooth, and the
\* score is that of the fresh accumulator.
C4_ResetIsFresh ==
    call.op = "reset" =>
        /\ iou.num_classes = pre.num_classes
        /\ iou.smooth = pre.smooth
        /\ DOMAIN iou.inter = 0 .. (iou.num_classes - 1)
        /\ DOMAIN iou.union = 0 .. (iou.num_classes - 1)
        /\ \A k \in 0 .. (iou.num_classes - 1) :
            iou.inter[k] = iou.smooth /\ iou.union[k] = iou.smooth
        /\ iou = IoU(pre.num_classes, pre.smooth)
        /\ score(iou).value = score(IoU(pre.num_classes, pre.smooth)).value

\* a reset of an accumulator that had counted something
C4_Witness ==
    /\ call.op = "reset"
    /\ \E k \in Classes(iou) : pre.inter[k] > iou.inter[k]
    /\ \E k \in Classes(iou) : pre.union[k] > pre.inter[k]

RECURSIVE SumOver(_, _)
SumOver(S, f) ==
    IF S = {} THEN 0
    ELSE LET k == CHOOSE j \in S : TRUE IN f[k] + SumOver(S \ {k}, f)

RECURSIVE ProdOver(_, _)
ProdOver(S, f) ==
    IF S = {} THEN 1
    ELSE LET k == CHOOSE j \in S : TRUE IN f[k] * ProdOver(S \ {k}, f)

\* v is the arithmetic mean of inter[k] / union[k] over the classes of S
\* (all with union[k] # 0): v * |S| = sum of the ratios, cross-multiplied
IsMeanOver(v, self, S) ==
    LET term == [k \in S |-> self.inter[k] * ProdOver(S \ {k}, self.union)]
    IN  /\ v[2] > 0
        /\ v[1] * Cardinality(S) * ProdOver(S, self.union)
              = v[2] * SumOver(S, term)

\* C5: score() and mean() return the arithmetic mean of inter[k] / union[k]
\* over exactly the classes with a finite ratio, those with union[k] # 0;
\* the other classes enter neither the sum nor the divisor.  With no finite
\* ratio the mean is that of the empty tensor, nan.
C5_ScoreIsMeanOfFinite ==
    LET F == {k \in Classes(iou) : iou.union[k] # 0}
        ok(v) == IF F = {} THEN v = NaN ELSE IsMeanOver(v, iou, F)
    IN  /\ ok(score(iou).value)
        /\ ok(mean(iou).value)
        /\ call.op \in {"score", "mean"} => ok(ret)

\* a score call with one class discarded and a non-zero mean of the rest
C5_Witness ==
    /\ call.op = "score"
    /\ \E k \in Classes(iou) : iou.union[k] = 0
    /\ \E k \in Classes(iou) : iou.union[k] # 0
    /\ ret[2] > 1

\* the ratios of the classes of S, in class order
RatiosOf(self, S) ==
    LET idx == SelectSeq([i \in 1 .. self.num_classes |-> i],
                         LAMBDA i : (i - 1) \in S)
    IN  [j \in 1 .. Len(idx) |-> Ratios(self)[idx[j]]]

\* the mean of a tensor of floats that may hold inf and nan
MeanIEEE(r) ==
    LET has(v) == \E i \in 1 .. Len(r) : r[i] = v
    IN  IF r = <<>> \/ has(NaN) \/ (has(<<1, 0>>) /\ has(<<-1, 0>>)) THEN NaN
        ELSE IF has(<<1, 0>>) THEN <<1, 0>>
        ELSE IF has(<<-1, 0>>) THEN <<-1, 0>>
        ELSE TorchMean(r)

\* C6 as stated, for the smoothing constants smooth >= 0: when some classes
\* were shown since the last reset and some were not, score() is the mean
\* of the ratios of the classes that were shown.
C6_Original ==
    (iou.smooth >= 0 /\ seen # {} /\ seen # Classes(iou)) =>
        score(iou).value = MeanIEEE(RatiosOf(iou, seen))

\* C6 amended: with smooth = 0, score() is the mean of the ratios of the
\* classes shown since the last reset (nan when none was), and a class that
\* was not shown contributes nothing.
C6_UnseenExcludedAtZeroSmooth ==
    iou.smooth = 0 =>
        /\ \A k \in Classes(iou) \ seen : ~isfinite(Ratios(iou)[k + 1])
        /\ \A k \in seen : isfinite(Ratios(iou)[k + 1])
        /\ score(iou).value = MeanIEEE(RatiosOf(iou, seen))
        /\ call.op \in {"score", "mean"} => ret = MeanIEEE(RatiosOf(iou, seen))

\* smooth = 0, one class shown and one not, and a score taken
C6_Witness ==
    /\ iou.smooth = 0
    /\ seen # {}
    /\ seen # Classes(iou)
    /\ call.op = "score"
    /\ ret = <<1, 1>>

\* C7: num_classes = 2, smooth = 0, a fresh accumulator and one update whose
\* predictions select class 1 at all 4 positions with targets [1, 1, 0, 0]:
\* inter = [0, 2], union = [2, 4], ratios [0, 0.5] and score() = 0.25.
C7_Scenario ==
    ( /\ iou.num_classes = 2
      /\ iou.smooth = 0
      /\ ncalls = 1
      /\ call.op = "update"
      /\ HardLabels(call.x) = <<1, 1, 1, 1>>
      /\ call.y = <<1, 1, 0, 0>> )
    => /\ iou.inter = (0 :> 0 @@ 1 :> 2)
       /\ iou.union = (0 :> 2 @@ 1 :> 4)
       /\ Ratios(iou) = << <<0, 1>>, <<1, 2>> >>
       /\ score(iou).value = <<1, 4>>

\* the scenario's update has been made on the fresh accumulator
C7_Witness ==
    /\ iou.num_classes = 2
    /\ iou.smooth = 0
    /\ ncalls = 1
    /\ call = [op |-> "update", x |-> ScenarioBatch.x, y |-> ScenarioBatch.y]
    /\ pre = IoU(2, 0)

\* C9: with smooth >= 0, smooth <= inter[k] <= union[k] for every class, so
\* a finite ratio lies in [0, 1], no ratio is positive/0, and score() lies
\* in [0, 1] as soon as one class has union[k] > 0.
C9_Bounds ==
    iou.smooth >= 0 =>
        /\ \A k \in Classes(iou) :
            /\ iou.smooth <= iou.inter[k]
            /\ iou.inter[k] <= iou.union[k]
            /\ ~(iou.inter[k] > 0 /\ iou.union[k] = 0)
            /\ LET r == Ratios(iou)[k + 1]
               IN  isfinite(r) => (0 <= r[1] /\ r[1] <= r[2])
        /\ (\E k \in Classes(iou) : iou.union[k] > 0) =>
            LET v == score(iou).value
            IN  isfinite(v) /\ 0 <= v[1] /\ v[1] <= v[2]

\* smooth >= 0 and a class counted with inter strictly between smooth and union
C9_Witness ==
    /\ iou.smooth >= 0
    /\ \E k \in Classes(iou) :
        iou.smooth < iou.inter[k] /\ iou.inter[k] < iou.union[k]
    /\ \E k \in Classes(iou) : iou.union[k] = iou.smooth

\* C10: score() and mean() change no field of the accumulator, mean()
\* returns what score() returns in the same state, and the accumulator
\* always equals the one that was sent the same calls without the score()
\* and mean() calls.
C10_QueriesArePure ==
    /\ call.op \in {"score", "mean"} =>
        /\ iou = pre
        /\ ret = score(pre).value
    /\ mean(iou).value = score(iou).value
    /\ mean(iou).self = iou
    /\ score(iou).self = iou
    /\ iou = shadow

\* a mean() call on an accumulator that had counted, followed by nothing
C10_Witness ==
    /\ call.op = "mean"
    /\ ncalls >= 2
    /\ pre.union # Fresh(pre)
    /\ isfinite(ret)
    /\ ret[1] > 0

\* ------------------------------------------ properties: SetAbstraction
\* C8: in group-all mode (radius is None) the features forward returns hold
\* one vector per batch element, [B, C', 1], whatever N and k are.
C8_GroupAllOneVector ==
    (out.status = "ok" /\ sa.radius = None) =>
        /\ Len(out.x) = 3
        /\ out.x[1] = shp.p[1]
        /\ out.x[3] = 1

====
